---------------------------- MODULE Spec2Model ----------------------------
(***************************************************************************)
(* A model of pwrstat-scraper.py: the scrape loop of run_scrape, the       *)
(* parser parse_pwrstat and the tag/field mapping of write_influxdb.       *)
(*                                                                         *)
(* Python strings are sequences of one-character strings, so that split,   *)
(* strip, replace, the substring test and float act on the characters as   *)
(* the interpreter does.  A dict is a function whose domain is its key     *)
(* set.  A Python float is the exact decimal [m |-> mantissa, e |-> number *)
(* of fractional digits], normalised so that equal numbers are equal       *)
(* records (1.50 = 1.5, 120.0 = 120).                                      *)
(***************************************************************************)
EXTENDS Integers, Sequences, FiniteSets, TLC

VARIABLES
    pc,            \* the position of run_scrape
    dry_run,       \* args.dry_run
    admin,         \* config['influx']['admin']
    out,           \* stdout of the last pwrstat invocation
    returncode,    \* p.returncode of the last pwrstat invocation
    pwrstat_dict,  \* the dict of the last parse_pwrstat call
    json_body,     \* the json_body of the last write_influxdb call
    exc,           \* the exception that has left run_scrape, or "None"
    calls,         \* the external calls made so far, in order, with outcome
    points,        \* the points handed to client.write_points, in order
    log,           \* the logger calls made so far, in order
    cycle          \* the number of completed iterations of the while loop

vars ==
    <<pc, dry_run, admin, out, returncode, pwrstat_dict, json_body, exc,
      calls, points, log, cycle>>

(***************************************************************************)
(* Bounds of the model.                                                    *)
(***************************************************************************)
\* The while loop of run_scrape is cut after this many completed iterations.
MaxCycles == 2

\* The status texts given to the parser alone have at most this many lines
\* after the three header lines.
MaxBodyLines == 2

(***************************************************************************)
(* Module constants of the program.                                        *)
(***************************************************************************)
Model_Name ==
    <<"M", "o", "d", "e", "l", " ", "N", "a", "m", "e">>
Firmware_Number ==
    <<"F", "i", "r", "m", "w", "a", "r", "e", " ", "N", "u", "m", "b", "e", "r">>
Rating_Voltage ==
    <<"R", "a", "t", "i", "n", "g", " ", "V", "o", "l", "t", "a", "g", "e">>
Rating_Power ==
    <<"R", "a", "t", "i", "n", "g", " ", "P", "o", "w", "e", "r">>
State ==
    <<"S", "t", "a", "t", "e">>
Utility_Voltage ==
    <<"U", "t", "i", "l", "i", "t", "y", " ", "V", "o", "l", "t", "a", "g", "e">>
Output_Voltage ==
    <<"O", "u", "t", "p", "u", "t", " ", "V", "o", "l", "t", "a", "g", "e">>
Battery_Capacity ==
    <<"B", "a", "t", "t", "e", "r", "y", " ", "C", "a", "p", "a", "c", "i", "t", "y">>
Remaining_Runtime ==
    <<"R", "e", "m", "a", "i", "n", "i", "n", "g", " ", "R", "u", "n", "t", "i", "m", "e">>
Load ==
    <<"L", "o", "a", "d">>
Normal ==
    <<"N", "o", "r", "m", "a", "l">>

STAT_COMMAND == <<"pwrstat", "-status">>

IMPORTANT_PWRSTAT_TAG_KEYS ==
    <<Model_Name, Firmware_Number, Rating_Voltage, Rating_Power>>

IMPORTANT_PWRSTAT_VALUE_KEYS ==
    <<State, Utility_Voltage, Output_Voltage, Battery_Capacity,
      Remaining_Runtime, Load>>

(***************************************************************************)
(* The str methods the program uses.                                       *)
(***************************************************************************)
\* The whitespace characters of the texts modelled (str.strip also removes
\* the form feed, the vertical tab and the separators, which none holds).
Whitespace == {" ", "\t", "\n", "\r"}

\* s.split(sep) for a one-character separator: never empty, "" gives [""].
RECURSIVE split(_, _)
split(s, sep) ==
    LET at == {i \in 1..Len(s) : s[i] = sep}
    IN  IF at = {} THEN <<s>>
        ELSE LET i == CHOOSE j \in at : \A k \in at : j <= k
             IN  <<SubSeq(s, 1, i - 1)>> \o split(SubSeq(s, i + 1, Len(s)), sep)

\* s.strip(): s without its leading and trailing whitespace.
strip(s) ==
    LET keep == {i \in 1..Len(s) : s[i] \notin Whitespace}
    IN  IF keep = {} THEN <<>>
        ELSE LET first == CHOOSE i \in keep : \A j \in keep : i <= j
                 last  == CHOOSE i \in keep : \A j \in keep : j <= i
             IN  SubSeq(s, first, last)

\* s.replace(old, '') for a one-character old: every occurrence removed.
replace(s, old) == SelectSeq(s, LAMBDA c : c # old)

\* sub in s
contains(sub, s) ==
    \E i \in 1..(Len(s) - Len(sub) + 1) : SubSeq(s, i, i + Len(sub) - 1) = sub

\* seq[n:]
slice_from(seq, n) == SubSeq(seq, n + 1, Len(seq))

\* '\n'.join(lines), the inverse of split('\n') on the command's output.
RECURSIVE join_lines(_)
join_lines(lines) ==
    IF Len(lines) = 0 THEN <<>>
    ELSE IF Len(lines) = 1 THEN lines[1]
    ELSE lines[1] \o <<"\n">> \o join_lines(Tail(lines))

(***************************************************************************)
(* float(x) on the decimal literals [sign] digits [. digits] (at least one *)
(* digit, surrounding whitespace ignored).  The inputs of the model hold   *)
(* no exponent, underscore, inf or nan literal, which float also accepts.  *)
(***************************************************************************)
Digits == <<"0", "1", "2", "3", "4", "5", "6", "7", "8", "9">>

IsDigit(c) == \E i \in 1..Len(Digits) : Digits[i] = c

DigitValue(c) == (CHOOSE i \in 1..Len(Digits) : Digits[i] = c) - 1

RECURSIVE digits_value(_)
digits_value(ds) ==
    IF Len(ds) = 0 THEN 0
    ELSE 10 * digits_value(SubSeq(ds, 1, Len(ds) - 1)) + DigitValue(ds[Len(ds)])

RECURSIVE normalise(_, _)
normalise(m, e) ==
    IF e > 0 /\ m % 10 = 0 THEN normalise(m \div 10, e - 1)
    ELSE [m |-> m, e |-> e]

unsigned_part(x) ==
    LET s == strip(x)
    IN  IF Len(s) > 0 /\ s[1] \in {"+", "-"} THEN Tail(s) ELSE s

\* float(x) raises ValueError
float_ValueError(x) ==
    LET body == unsigned_part(x)
    IN  \/ \E i \in 1..Len(body) : ~IsDigit(body[i]) /\ body[i] # "."
        \/ Len(SelectSeq(body, LAMBDA c : c = ".")) > 1
        \/ Len(SelectSeq(body, IsDigit)) = 0

\* the value of float(x) when it does not raise
float(x) ==
    LET s      == strip(x)
        body   == unsigned_part(x)
        parts  == split(body, ".")
        digits == SelectSeq(body, IsDigit)
        frac   == IF Len(parts) > 1 THEN Len(parts[2]) ELSE 0
        m      == digits_value(digits)
    IN  IF Len(s) > 0 /\ s[1] = "-" THEN normalise(0 - m, frac)
        ELSE normalise(m, frac)

Float_0_0 == normalise(0, 0)
Float_1_0 == normalise(1, 0)

(***************************************************************************)
(* parse_pwrstat                                                           *)
(***************************************************************************)
EmptyDict == [k \in {} |-> <<>>]

dict_set(d, key, value) ==
    [k \in (DOMAIN d) \cup {key} |-> IF k = key THEN value ELSE d[k]]

\* One iteration of the for loop over the lines: the dict after the line.
parse_line(pwrstat_dict_, line) ==
    IF Len(line) = 0 THEN pwrstat_dict_
    ELSE IF ~contains(<<".">>, line) THEN pwrstat_dict_
    ELSE LET line_split == split(line, ".")
             key        == strip(line_split[1])
             value      == IF contains(Remaining_Runtime, line)
                           THEN strip(line_split[Len(line_split) - 1])
                           ELSE strip(line_split[Len(line_split)])
         IN  dict_set(pwrstat_dict_, key, value)

RECURSIVE parse_lines(_, _, _)
parse_lines(pwrstat_dict_, lines, i) ==
    IF i > Len(lines) THEN pwrstat_dict_
    ELSE parse_lines(parse_line(pwrstat_dict_, lines[i]), lines, i + 1)

\* parse_pwrstat discarding two lines, not three
parse_pwrstat_two_header_lines(out_) ==
    LET lines == slice_from(split(out_, "\n"), 2)
    IN  parse_lines(EmptyDict, lines, 1)

parse_pwrstat(out_) ==
    LET lines == slice_from(split(out_, "\n"), 3)
    IN  parse_lines(EmptyDict, lines, 1)

(***************************************************************************)
(* write_influxdb: the tag loop, the value loop and the point.             *)
(***************************************************************************)
\* value.split(' ')[0]
first_token(value) == split(value, " ")[1]

\* float(value) with a value that is no number taken as 0.0
call_float_or_zero(x) ==
    IF float_ValueError(x) THEN [exc |-> "None", value |-> Float_0_0]
    ELSE [exc |-> "None", value |-> float(x)]

\* float(value) as a call: the exception it raises, and its value
call_float(x) ==
    IF float_ValueError(x) THEN [exc |-> "ValueError", value |-> Float_0_0]
    ELSE [exc |-> "None", value |-> float(x)]

TRANSFORM_KEYS == {State, Battery_Capacity}

\* the State transform with its two codes exchanged
TRANSFORMS_codes_exchanged(stat_key, x) ==
    IF stat_key = State
    THEN [exc |-> "None", value |-> IF x = Normal THEN Float_1_0 ELSE Float_0_0]
    ELSE call_float(x)

\* IMPORTANT_PWRSTAT_STAT_KEYS_TRANSFORMS[stat_key](x), for stat_key in the table
IMPORTANT_PWRSTAT_STAT_KEYS_TRANSFORMS(stat_key, x) ==
    IF stat_key = State
    THEN [exc |-> "None", value |-> IF x = Normal THEN Float_0_0 ELSE Float_1_0]
    ELSE call_float(x)

\* the tag loop leaving out a tag the dict does not hold
RECURSIVE tag_loop_skipping_absent(_, _, _)
tag_loop_skipping_absent(pwrstat_dict_, i, tags) ==
    IF i > Len(IMPORTANT_PWRSTAT_TAG_KEYS) THEN [exc |-> "None", dict |-> tags]
    ELSE LET tag == IMPORTANT_PWRSTAT_TAG_KEYS[i]
             key == replace(tag, " ")
         IN  IF tag \notin DOMAIN pwrstat_dict_
             THEN tag_loop_skipping_absent(pwrstat_dict_, i + 1, tags)
             ELSE tag_loop_skipping_absent(pwrstat_dict_, i + 1,
                           dict_set(tags, key, first_token(pwrstat_dict_[tag])))

\* the for loop over IMPORTANT_PWRSTAT_TAG_KEYS from its i-th key on
RECURSIVE tag_loop(_, _, _)
tag_loop(pwrstat_dict_, i, tags) ==
    IF i > Len(IMPORTANT_PWRSTAT_TAG_KEYS) THEN [exc |-> "None", dict |-> tags]
    ELSE LET tag == IMPORTANT_PWRSTAT_TAG_KEYS[i]
             key == replace(tag, " ")
         IN  IF tag \notin DOMAIN pwrstat_dict_
             THEN [exc |-> "KeyError", dict |-> tags]
             ELSE tag_loop(pwrstat_dict_, i + 1,
                           dict_set(tags, key, first_token(pwrstat_dict_[tag])))

\* the for loop over IMPORTANT_PWRSTAT_VALUE_KEYS from its i-th key on
RECURSIVE value_loop(_, _, _)
value_loop(pwrstat_dict_, i, fields) ==
    IF i > Len(IMPORTANT_PWRSTAT_VALUE_KEYS) THEN [exc |-> "None", dict |-> fields]
    ELSE LET stat_key == IMPORTANT_PWRSTAT_VALUE_KEYS[i]
             key      == replace(stat_key, " ")
         IN  IF stat_key \notin DOMAIN pwrstat_dict_
             THEN [exc |-> "KeyError", dict |-> fields]
             ELSE LET token == first_token(pwrstat_dict_[stat_key])
                      r     == IF stat_key \in TRANSFORM_KEYS
                               THEN IMPORTANT_PWRSTAT_STAT_KEYS_TRANSFORMS(stat_key, token)
                               ELSE call_float(token)
                  IN  IF r.exc # "None" THEN [exc |-> r.exc, dict |-> fields]
                      ELSE value_loop(pwrstat_dict_, i + 1,
                                      dict_set(fields, key, r.value))

\* json_body as first assigned: no tags, no fields, time None
new_json_body(series_name) ==
    [measurement |-> series_name, tags |-> EmptyDict, fields |-> EmptyDict,
     time |-> <<>>]

\* write_influxdb up to the dry_run test: the exception raised on the way
\* ("None" when none is) and json_body as it stands then.
build_json_body(series_name, pwrstat_dict_, utcnow) ==
    LET t    == tag_loop(pwrstat_dict_, 1, EmptyDict)
        v    == value_loop(pwrstat_dict_, 1, EmptyDict)
        body == new_json_body(series_name)
    IN  IF t.exc # "None"
        THEN [exc |-> t.exc, json_body |-> [body EXCEPT !.tags = t.dict]]
        ELSE IF v.exc # "None"
        THEN [exc |-> v.exc,
              json_body |-> [body EXCEPT !.tags = t.dict, !.fields = v.dict]]
        ELSE [exc |-> "None",
              json_body |-> [body EXCEPT !.tags = t.dict, !.fields = v.dict,
                                         !.time = <<utcnow>>]]

(***************************************************************************)
(* The output of pwrstat -status: three header lines, then the report.     *)
(***************************************************************************)
Line_Interaction ==
    <<"L", "i", "n", "e", " ", "I", "n", "t", "e", "r", "a", "c", "t", "i", "o", "n">>
Test_Result ==
    <<"T", "e", "s", "t", " ", "R", "e", "s", "u", "l", "t">>
Header_Title ==
    <<"T", "h", "e", " ", "U", "P", "S", " ", "i", "n", "f", "o", "r", "m", "a", "t", "i", "o", "n", " ", "s", "h", "o", "w", "s", " ", "a", "s", " ", "f", "o", "l", "l", "o", "w", "i", "n", "g", ":">>
Header_Version ==
    <<"p", "w", "r", "s", "t", "a", "t", " ", "v", "e", "r", "s", "i", "o", "n", " ", "1", ".", "3">>
Section_Properties ==
    <<"\t", "P", "r", "o", "p", "e", "r", "t", "i", "e", "s", ":">>
Section_Status ==
    <<"\t", "C", "u", "r", "r", "e", "n", "t", " ", "U", "P", "S", " ", "s", "t", "a", "t", "u", "s", ":">>
Txt_Model ==
    <<"C", "P", "1", "5", "0", "0", " ", "P", "F", "C", "L", "C", "D">>
Txt_Firmware ==
    <<"B", "F", "0", "1", ".", "B", "2", "3">>
Txt_120V ==
    <<"1", "2", "0", " ", "V">>
Txt_900Watt ==
    <<"9", "0", "0", " ", "W", "a", "t", "t">>
Txt_121V ==
    <<"1", "2", "1", " ", "V">>
Txt_100pct ==
    <<"1", "0", "0", " ", "%">>
Txt_88min_dot ==
    <<"8", "8", " ", "m", "i", "n", ".">>
Txt_88min ==
    <<"8", "8", " ", "m", "i", "n">>
Txt_Load ==
    <<"9", "9", " ", "W", "a", "t", "t", "(", "1", "1", " ", "%", ")">>
Txt_None ==
    <<"N", "o", "n", "e">>
Txt_PowerFailure ==
    <<"P", "o", "w", "e", "r", " ", "F", "a", "i", "l", "u", "r", "e">>
Txt_NoReading ==
    <<"-", "-", "-", " ", "V">>
Txt_0V ==
    <<"0", " ", "V">>
Txt_12_5Watt ==
    <<"1", "2", ".", "5", " ", "W", "a", "t", "t", "(", "2", " ", "%", ")">>
Txt_ModelX ==
    <<"M", "o", "d", "e", "l", "X", " ", "1", "0", "0", "0">>
Txt_1_2 ==
    <<"1", ".", "2">>
Txt_500Watt ==
    <<"5", "0", "0", " ", "W", "a", "t", "t">>
Txt_100Percent ==
    <<"1", "0", "0", " ", "P", "e", "r", "c", "e", "n", "t">>
Txt_45min ==
    <<"4", "5", " ", "m", "i", "n">>
Txt_Load30 ==
    <<"3", "0", " ", "W", "a", "t", "t", "(", "2", "0", ".", "0", " ", "%", ")">>
Txt_12_50V ==
    <<"1", "2", ".", "5", "0", " ", "V">>
Txt_minus3 ==
    <<"-", "3">>
Txt_abc ==
    <<"a", "b", "c">>
Txt_low ==
    <<"l", "o", "w">>
Txt_7 ==
    <<"7">>


\* One line of the report as pwrstat prints it: label, dotted fill, value.
status_line(label, text) == <<"\t", "\t">> \o label \o <<".", ".", " ">> \o text

\* The labels of the report, in the order pwrstat prints them.
REPORT_LABELS ==
    <<Model_Name, Firmware_Number, Rating_Voltage, Rating_Power, State,
      Utility_Voltage, Output_Voltage, Battery_Capacity, Remaining_Runtime,
      Load, Line_Interaction>>

RECURSIVE report_lines(_, _)
report_lines(report, i) ==
    IF i > Len(REPORT_LABELS) THEN <<>>
    ELSE LET label == REPORT_LABELS[i]
             rest  == report_lines(report, i + 1)
         IN  IF label \in DOMAIN report
             THEN <<status_line(label, report[label])>> \o rest
             ELSE rest

\* The text of a report: label |-> printed value, for the labels printed.
report_text(report) ==
    join_lines(<<<<>>, Header_Title, <<>>, Section_Properties>>
               \o report_lines(report, 1) \o <<Section_Status, <<>>>>)

\* A report of a UPS on utility power.
GoodReport ==
    [label \in {REPORT_LABELS[i] : i \in 1..Len(REPORT_LABELS)} |->
        CASE label = Model_Name        -> Txt_Model
          [] label = Firmware_Number   -> Txt_Firmware
          [] label = Rating_Voltage    -> Txt_120V
          [] label = Rating_Power      -> Txt_900Watt
          [] label = State             -> Txt_PowerFailure
          [] label = Utility_Voltage   -> Txt_121V
          [] label = Output_Voltage    -> Txt_121V
          [] label = Battery_Capacity  -> Txt_100pct
          [] label = Remaining_Runtime -> Txt_88min_dot
          [] label = Load              -> Txt_Load
          [] OTHER                     -> Txt_None]

dict_del(d, key) == [k \in (DOMAIN d) \ {key} |-> d[k]]

\* The reports the command prints in the loop: the good one, and the good
\* one with one line printed differently or not at all.
LoopReports ==
    {GoodReport}
    \cup {dict_set(GoodReport, e[1], e[2]) :
            e \in {<<State, Normal>>, <<Utility_Voltage, Txt_NoReading>>,
                   <<Battery_Capacity, Txt_abc>>, <<Remaining_Runtime, Txt_88min>>,
                   <<Load, Txt_12_5Watt>>, <<Output_Voltage, Txt_0V>>}}
    \cup {dict_del(GoodReport, label) : label \in {Model_Name, Load}}

LoopTexts == {report_text(r) : r \in LoopReports}

\* What the command leaves on stdout when it fails.
FailTexts == {<<>>, report_text(GoodReport)}

ReturnCodes == {0, 1, 255}

args_series == "ups"

(***************************************************************************)
(* run_scrape                                                              *)
(***************************************************************************)
Call(op, ok) == [op |-> op, ok |-> ok]

Logged(level, msg) == [level |-> level, msg |-> msg]

Init ==
    /\ pc = "ping"
    /\ dry_run \in BOOLEAN
    /\ admin \in BOOLEAN
    /\ out = <<>>
    /\ returncode = 0
    /\ pwrstat_dict = EmptyDict
    /\ json_body = new_json_body(args_series)
    /\ exc = "None"
    /\ calls = <<>>
    /\ points = <<>>
    /\ log = <<>>
    /\ cycle = 0

\* run_scrape going on after a ping that answers nothing
Ping_without_return ==
    /\ pc = "ping"
    /\ \E influx_ping_response \in BOOLEAN :
          /\ calls' = Append(calls, Call("ping", influx_ping_response))
          /\ log' = Append(log, IF influx_ping_response
                                THEN Logged("info", "Connected to InfluxDB: {0}")
                                ELSE Logged("error", "Error connecting to InfluxDB."))
          /\ pc' = "create_database"
    /\ UNCHANGED <<dry_run, admin, out, returncode, pwrstat_dict, json_body,
                   exc, points, cycle>>

\* client.ping() and the return when it answers nothing
Ping ==
    /\ pc = "ping"
    /\ \E influx_ping_response \in BOOLEAN :
          /\ calls' = Append(calls, Call("ping", influx_ping_response))
          /\ IF influx_ping_response
             THEN /\ log' = Append(log, Logged("info", "Connected to InfluxDB: {0}"))
                  /\ pc' = "create_database"
             ELSE /\ log' = Append(log, Logged("error", "Error connecting to InfluxDB."))
                  /\ pc' = "returned"
    /\ UNCHANGED <<dry_run, admin, out, returncode, pwrstat_dict, json_body,
                   exc, points, cycle>>

\* client.create_database for an admin, and the two start-up messages
CreateDatabase ==
    /\ pc = "create_database"
    /\ calls' = IF admin THEN Append(calls, Call("create_database", TRUE))
                ELSE calls
    /\ log' = log \o <<Logged("info", "InfluxDB URL: {0}"),
                       Logged("info", "Starting up scraper...")>>
    /\ pc' = "Popen"
    /\ UNCHANGED <<dry_run, admin, out, returncode, pwrstat_dict, json_body,
                   exc, points, cycle>>

\* the loop going on to parse after a failed command
Popen_without_return ==
    /\ pc = "Popen"
    /\ \E rc \in ReturnCodes :
          \E stdout \in IF rc = 0 THEN LoopTexts ELSE FailTexts :
             /\ returncode' = rc
             /\ out' = stdout
             /\ calls' = Append(calls, Call("Popen", rc = 0))
             /\ log' = IF rc # 0
                       THEN Append(log, Logged("error", "Error executing {0}: {1}"))
                       ELSE log
             /\ pc' = "parse_pwrstat"
    /\ UNCHANGED <<dry_run, admin, pwrstat_dict, json_body, exc, points, cycle>>

\* subprocess.Popen(STAT_COMMAND), communicate, and the return on failure
Popen ==
    /\ pc = "Popen"
    /\ \E rc \in ReturnCodes :
          \E stdout \in IF rc = 0 THEN LoopTexts ELSE FailTexts :
             /\ returncode' = rc
             /\ out' = stdout
             /\ calls' = Append(calls, Call("Popen", rc = 0))
             /\ IF rc # 0
                THEN /\ log' = Append(log, Logged("error", "Error executing {0}: {1}"))
                     /\ pc' = "returned"
                ELSE /\ log' = log
                     /\ pc' = "parse_pwrstat"
    /\ UNCHANGED <<dry_run, admin, pwrstat_dict, json_body, exc, points, cycle>>

\* pwrstat_dict = parse_pwrstat(out.decode())
Parse ==
    /\ pc = "parse_pwrstat"
    /\ pwrstat_dict' = parse_pwrstat(out)
    /\ calls' = Append(calls, Call("parse_pwrstat", TRUE))
    /\ pc' = "write_influxdb"
    /\ UNCHANGED <<dry_run, admin, out, returncode, json_body, exc, points,
                   log, cycle>>

\* write_influxdb writing whatever dry_run says
WriteInfluxdb_ignoring_dry_run ==
    /\ pc = "write_influxdb"
    /\ LET built == build_json_body(args_series, pwrstat_dict, cycle)
       IN  /\ json_body' = built.json_body
           /\ IF built.exc # "None"
              THEN /\ exc' = built.exc
                   /\ calls' = Append(calls, Call("write_influxdb", FALSE))
                   /\ pc' = "raised"
                   /\ UNCHANGED <<points, log>>
              ELSE \E success \in BOOLEAN :
                   /\ calls' = calls \o <<Call("write_influxdb", TRUE),
                                          Call("write_points", success)>>
                   /\ points' = Append(points, built.json_body)
                   /\ log' = log \o <<Logged("debug", "json_body")>>
                                 \o (IF success THEN <<>>
                                     ELSE <<Logged("error", "Error writing to InfluxDB!")>>)
                   /\ pc' = "sleep"
                   /\ UNCHANGED exc
    /\ UNCHANGED <<dry_run, admin, out, returncode, pwrstat_dict, cycle>>

\* a failed write ending run_scrape
WriteInfluxdb_write_error_fatal ==
    /\ pc = "write_influxdb"
    /\ LET built == build_json_body(args_series, pwrstat_dict, cycle)
       IN  /\ json_body' = built.json_body
           /\ IF built.exc # "None"
              THEN /\ exc' = built.exc
                   /\ calls' = Append(calls, Call("write_influxdb", FALSE))
                   /\ pc' = "raised"
                   /\ UNCHANGED <<points, log>>
              ELSE IF dry_run
              THEN /\ calls' = Append(calls, Call("write_influxdb", TRUE))
                   /\ log' = Append(log, Logged("debug", "json_body"))
                   /\ pc' = "sleep"
                   /\ UNCHANGED <<exc, points>>
              ELSE \E success \in BOOLEAN :
                   /\ calls' = calls \o <<Call("write_influxdb", TRUE),
                                          Call("write_points", success)>>
                   /\ points' = Append(points, built.json_body)
                   /\ log' = log \o <<Logged("debug", "json_body")>>
                                 \o (IF success THEN <<>>
                                     ELSE <<Logged("error", "Error writing to InfluxDB!")>>)
                   /\ pc' = IF success THEN "sleep" ELSE "returned"
                   /\ UNCHANGED exc
    /\ UNCHANGED <<dry_run, admin, out, returncode, pwrstat_dict, cycle>>

\* write_influxdb(client, args.series, pwrstat_dict, dry_run=args.dry_run)
WriteInfluxdb ==
    /\ pc = "write_influxdb"
    /\ LET built == build_json_body(args_series, pwrstat_dict, cycle)
       IN  /\ json_body' = built.json_body
           /\ IF built.exc # "None"
              THEN /\ exc' = built.exc
                   /\ calls' = Append(calls, Call("write_influxdb", FALSE))
                   /\ pc' = "raised"
                   /\ UNCHANGED <<points, log>>
              ELSE IF dry_run
              THEN /\ calls' = Append(calls, Call("write_influxdb", TRUE))
                   /\ log' = Append(log, Logged("debug", "json_body"))
                   /\ pc' = "sleep"
                   /\ UNCHANGED <<exc, points>>
              ELSE \E success \in BOOLEAN :
                   /\ calls' = calls \o <<Call("write_influxdb", TRUE),
                                          Call("write_points", success)>>
                   /\ points' = Append(points, built.json_body)
                   /\ log' = log \o <<Logged("debug", "json_body")>>
                                 \o (IF success THEN <<>>
                                     ELSE <<Logged("error", "Error writing to InfluxDB!")>>)
                   /\ pc' = "sleep"
                   /\ UNCHANGED exc
    /\ UNCHANGED <<dry_run, admin, out, returncode, pwrstat_dict, cycle>>

\* the loop body run once: a return after the sleep
Sleep_then_return ==
    /\ pc = "sleep"
    /\ cycle < MaxCycles
    /\ calls' = Append(calls, Call("sleep", TRUE))
    /\ cycle' = cycle + 1
    /\ pc' = "returned"
    /\ UNCHANGED <<dry_run, admin, out, returncode, pwrstat_dict, json_body,
                   exc, points, log>>

\* time.sleep(args.interval), and back to the top of the while loop
Sleep ==
    /\ pc = "sleep"
    /\ cycle < MaxCycles
    /\ calls' = Append(calls, Call("sleep", TRUE))
    /\ cycle' = cycle + 1
    /\ pc' = "Popen"
    /\ UNCHANGED <<dry_run, admin, out, returncode, pwrstat_dict, json_body,
                   exc, points, log>>

Next == Ping \/ CreateDatabase \/ Popen \/ Parse \/ WriteInfluxdb \/ Sleep

Spec == Init /\ [][Next]_vars

(***************************************************************************)
(* parse_pwrstat alone, on status texts of three header lines and at most  *)
(* MaxBodyLines further lines.                                             *)
(***************************************************************************)
ParseHeaders ==
    {<<<<>>, Header_Title, <<>>>>,
     <<Header_Version, Header_Title, <<>>>>,
     <<status_line(State, Txt_None), <<>>, status_line(Load, Txt_0V)>>}

ParseLines ==
    {status_line(Load, Txt_Load),
     status_line(Load, Txt_0V),
     <<" ", " ">> \o Load \o <<" ", ".", ".", " ">> \o Txt_7,
     status_line(Remaining_Runtime, Txt_88min_dot),
     status_line(Remaining_Runtime, Txt_88min),
     Remaining_Runtime \o <<".">> \o Txt_7,
     status_line(Test_Result, Remaining_Runtime \o <<".", " ">> \o Txt_low),
     status_line(Firmware_Number, Txt_Firmware),
     <<".">>,
     <<>>,
     Section_Status}

ParseBodies == UNION {[1..n -> ParseLines] : n \in 0..MaxBodyLines}

ParseTexts == {join_lines(h \o b) : h \in ParseHeaders, b \in ParseBodies}

InitParse ==
    /\ pc = "parse_pwrstat"
    /\ dry_run = FALSE
    /\ admin = FALSE
    /\ out \in ParseTexts
    /\ returncode = 0
    /\ pwrstat_dict = EmptyDict
    /\ json_body = new_json_body(args_series)
    /\ exc = "None"
    /\ calls = <<>>
    /\ points = <<>>
    /\ log = <<>>
    /\ cycle = 0

NextParse == Parse

SpecParse == InitParse /\ [][NextParse]_vars

(***************************************************************************)
(* write_influxdb alone, on the dicts that differ from a complete one in   *)
(* at most two entries (changed, added or removed).                        *)
(***************************************************************************)
MapBase ==
    [label \in {REPORT_LABELS[i] : i \in 1..Len(REPORT_LABELS)} |->
        CASE label = Model_Name        -> Txt_ModelX
          [] label = Firmware_Number   -> Txt_1_2
          [] label = Rating_Voltage    -> Txt_120V
          [] label = Rating_Power      -> Txt_500Watt
          [] label = State             -> Normal
          [] label = Utility_Voltage   -> Txt_120V
          [] label = Output_Voltage    -> Txt_120V
          [] label = Battery_Capacity  -> Txt_100Percent
          [] label = Remaining_Runtime -> Txt_45min
          [] label = Load              -> Txt_Load30
          [] OTHER                     -> Txt_None]

MapValues == {Normal, Txt_PowerFailure, <<>>, Txt_12_50V, Txt_minus3, Txt_abc}

MapEdits ==
    {[label |-> l, present |-> TRUE, value |-> v] :
        l \in DOMAIN MapBase \cup {Test_Result}, v \in MapValues}
    \cup {[label |-> l, present |-> FALSE, value |-> <<>>] : l \in DOMAIN MapBase}

apply_edit(d, e) ==
    IF e.present THEN dict_set(d, e.label, e.value) ELSE dict_del(d, e.label)

MapDicts == {apply_edit(apply_edit(MapBase, e1), e2) : e1, e2 \in MapEdits}

InitMap ==
    /\ pc = "write_influxdb"
    /\ dry_run \in BOOLEAN
    /\ admin = FALSE
    /\ out = <<>>
    /\ returncode = 0
    /\ pwrstat_dict \in MapDicts
    /\ json_body = new_json_body(args_series)
    /\ exc = "None"
    /\ calls = <<>>
    /\ points = <<>>
    /\ log = <<>>
    /\ cycle = 0

NextMap == WriteInfluxdb

SpecMap == InitMap /\ [][NextMap]_vars

(***************************************************************************)
(* What the properties below speak of.                                     *)
(***************************************************************************)
Terminal == {"returned", "raised"}

HasCalls == Len(calls) > 0

LastCall == calls[Len(calls)]

Count(seq, x) == Cardinality({i \in 1..Len(seq) : seq[i] = x})

TagLabels == {IMPORTANT_PWRSTAT_TAG_KEYS[i] : i \in 1..Len(IMPORTANT_PWRSTAT_TAG_KEYS)}

ValueLabels == {IMPORTANT_PWRSTAT_VALUE_KEYS[i] : i \in 1..Len(IMPORTANT_PWRSTAT_VALUE_KEYS)}

RequiredLabels == TagLabels \cup ValueLabels

SinkKey(label) == replace(label, " ")

SomeRequiredAbsent(d) == \E l \in RequiredLabels : l \notin DOMAIN d

\* the label is in the dict and the first token of its value is no number
NotCoercible(d, l) == l \in DOMAIN d /\ float_ValueError(first_token(d[l]))

\* a required label is absent, or a value label other than State is no number
MappingMustFail(d) ==
    \/ SomeRequiredAbsent(d)
    \/ \E l \in ValueLabels \ {State} : NotCoercible(d, l)

\* a point with all four tags, all six fields and a timestamp
CompletePoint(p) ==
    /\ DOMAIN p.tags = {SinkKey(l) : l \in TagLabels}
    /\ DOMAIN p.fields = {SinkKey(l) : l \in ValueLabels}
    /\ Len(p.time) = 1

\* write_influxdb has run on pwrstat_dict in this iteration of the loop
Mapped == pc \in {"sleep", "raised"}

(***************************************************************************)
(* C1.  A status command that exits non-zero ends the loop at once: the    *)
(* failed invocation is the last call run_scrape ever makes (no parse, no  *)
(* write_influxdb, no write_points, no sleep, no further invocation), the  *)
(* error is the last message logged and run_scrape has returned.           *)
(***************************************************************************)
C1_NonZeroExitEndsLoop ==
    /\ \A i \in 1..Len(calls) :
          calls[i] = Call("Popen", FALSE) =>
             /\ i = Len(calls)
             /\ pc = "returned"
             /\ returncode # 0
             /\ log[Len(log)] = Logged("error", "Error executing {0}: {1}")
    /\ returncode # 0 => HasCalls /\ LastCall = Call("Popen", FALSE)

\* the command has failed in the second iteration, after a point was written
C1_Witness ==
    /\ pc = "returned"
    /\ returncode # 0
    /\ cycle = 1
    /\ Len(points) = 1
    /\ pwrstat_dict # EmptyDict

(***************************************************************************)
(* C2.  In dry-run mode write_points is never called and no point reaches  *)
(* the sink, while every successful invocation is still parsed, every      *)
(* parsed dict is still mapped, a dict whose mapping must fail still       *)
(* raises, and a mapping that succeeds still builds the complete point.    *)
(***************************************************************************)
C2_DryRunNeverWrites ==
    dry_run =>
       /\ points = <<>>
       /\ \A i \in 1..Len(calls) : calls[i].op # "write_points"
       /\ \A i \in 1..(Len(calls) - 1) :
             /\ calls[i] = Call("Popen", TRUE) => calls[i + 1].op = "parse_pwrstat"
             /\ calls[i].op = "parse_pwrstat" => calls[i + 1].op = "write_influxdb"
       /\ Mapped /\ MappingMustFail(pwrstat_dict) => pc = "raised"
       /\ pc = "sleep" =>
             /\ LastCall = Call("write_influxdb", TRUE)
             /\ CompletePoint(json_body)
             /\ json_body.time = <<cycle>>
             /\ log[Len(log)] = Logged("debug", "json_body")

\* two dry-run iterations have built their points
C2_Witness ==
    /\ dry_run
    /\ pc = "sleep"
    /\ cycle = 1
    /\ CompletePoint(json_body)

(***************************************************************************)
(* C3.  A write_points that returns false is logged as an error and is     *)
(* followed by the sleep of its iteration and then by the next invocation  *)
(* of the status command; it never ends run_scrape.                        *)
(***************************************************************************)
C3_WriteFailureContinues ==
    /\ \A i \in 1..Len(calls) :
          calls[i] = Call("write_points", FALSE) =>
             /\ i = Len(calls) => pc = "sleep"
             /\ i < Len(calls) => calls[i + 1].op = "sleep"
             /\ i + 1 = Len(calls) => pc = "Popen"
             /\ i + 1 < Len(calls) => calls[i + 2].op = "Popen"
    /\ Count(log, Logged("error", "Error writing to InfluxDB!"))
          = Count(calls, Call("write_points", FALSE))
    /\ pc = "sleep" /\ cycle < MaxCycles => ENABLED Sleep
    /\ pc = "Popen" => ENABLED Popen

\* a failed write was followed by the sleep and the next invocation
C3_Witness ==
    \E i \in 1..Len(calls) :
       /\ calls[i] = Call("write_points", FALSE)
       /\ i + 2 <= Len(calls)
       /\ calls[i + 2].op = "Popen"

(***************************************************************************)
(* C4.  The ping is the first call and is made once.  When it fails,       *)
(* run_scrape logs the error and returns: the ping stays the only call it  *)
(* ever makes (no create_database even for an admin, no invocation of the  *)
(* status command) and no point is written.                                *)
(***************************************************************************)
C4_PingFailureReturns ==
    /\ Cardinality({i \in 1..Len(calls) : calls[i].op = "ping"}) <= 1
    /\ HasCalls => calls[1].op = "ping"
    /\ HasCalls /\ ~calls[1].ok =>
          /\ calls = <<Call("ping", FALSE)>>
          /\ pc = "returned"
          /\ points = <<>>
          /\ log = <<Logged("error", "Error connecting to InfluxDB.")>>

\* the ping of an admin instance has failed
C4_Witness ==
    /\ admin
    /\ pc = "returned"
    /\ calls = <<Call("ping", FALSE)>>

(***************************************************************************)
(* C5.  As claimed: run_scrape ends only on a failed ping or on a status   *)
(* command that exits non-zero.                                            *)
(***************************************************************************)
C5_OnlyTwoFatalPaths ==
    pc \in Terminal =>
       /\ HasCalls
       /\ LastCall \in {Call("ping", FALSE), Call("Popen", FALSE)}

(***************************************************************************)
(* C5, amended.  run_scrape ends only on a failed ping, on a status        *)
(* command that exits non-zero, or on the KeyError or ValueError that      *)
(* leaves write_influxdb; every other state is a step of the start-up or   *)
(* of the loop.                                                            *)
(***************************************************************************)
C5_OnlyFatalPathsOrException ==
    /\ pc \in Terminal =>
          /\ HasCalls
          /\ LastCall \in {Call("ping", FALSE), Call("Popen", FALSE),
                           Call("write_influxdb", FALSE)}
    /\ pc = "raised" <=> exc # "None"
    /\ exc \in {"None", "KeyError", "ValueError"}
    /\ pc = "raised" => HasCalls /\ LastCall = Call("write_influxdb", FALSE)
    /\ pc \notin Terminal =>
          pc \in {"ping", "create_database", "Popen", "parse_pwrstat",
                  "write_influxdb", "sleep"}
    /\ pc = "ping" => ENABLED Ping
    /\ pc = "create_database" => ENABLED CreateDatabase

\* a missing label has ended the loop in its second iteration
C5_Witness ==
    /\ pc = "raised"
    /\ exc = "KeyError"
    /\ cycle = 1

(***************************************************************************)
(* C6.  As claimed: a dict with a required label absent, or with a value   *)
(* label (State included) whose first token is no number, is never         *)
(* written: write_influxdb raises.                                         *)
(***************************************************************************)
C6_AnyBadTokenRaises ==
    Mapped /\ (\/ SomeRequiredAbsent(pwrstat_dict)
               \/ \E l \in ValueLabels : NotCoercible(pwrstat_dict, l))
       => pc = "raised"

(***************************************************************************)
(* C6, amended.  A dict with a required label absent, or with a value      *)
(* label other than State whose first token is no number, is never         *)
(* written: write_influxdb raises before write_points, no point of that    *)
(* iteration reaches the sink, the raise is the last call of run_scrape,   *)
(* and every point that does reach the sink is complete.                   *)
(***************************************************************************)
C6_MappingFailureHaltsBeforeWrite ==
    /\ Mapped /\ MappingMustFail(pwrstat_dict) =>
          /\ pc = "raised"
          /\ exc \in {"KeyError", "ValueError"}
          /\ LastCall = Call("write_influxdb", FALSE)
          /\ \A i \in 1..Len(points) : points[i].time # <<cycle>>
    /\ \A i \in 1..Len(calls) :
          calls[i] = Call("write_influxdb", FALSE) => i = Len(calls) /\ pc = "raised"
    /\ \A i \in 1..Len(points) : CompletePoint(points[i])
    /\ Len(points) = Cardinality({i \in 1..Len(calls) : calls[i].op = "write_points"})

\* a value that is no number has ended the loop after one point was written
C6_Witness ==
    /\ pc = "raised"
    /\ exc = "ValueError"
    /\ ~dry_run
    /\ Len(points) = 1
    /\ ~SomeRequiredAbsent(pwrstat_dict)

(***************************************************************************)
(* What the properties of write_influxdb alone speak of.                   *)
(***************************************************************************)
RequiredInOrder == IMPORTANT_PWRSTAT_TAG_KEYS \o IMPORTANT_PWRSTAT_VALUE_KEYS

\* the place, in the order the two loops go, of the first label the dict lacks
FirstAbsent(d) ==
    CHOOSE i \in 1..Len(RequiredInOrder) :
       /\ RequiredInOrder[i] \notin DOMAIN d
       /\ \A j \in 1..(i - 1) : RequiredInOrder[j] \in DOMAIN d

\* no value label looked up before the first absent label is no number
CoercibleBeforeFirstAbsent(d) ==
    \A j \in 1..(FirstAbsent(d) - 1) :
       RequiredInOrder[j] \in ValueLabels \ {State}
          => ~NotCoercible(d, RequiredInOrder[j])

MapDone == pc # "write_influxdb"

(***************************************************************************)
(* C7.  As claimed: write_influxdb raises KeyError if and only if a        *)
(* required label is absent, whatever the other entries are.               *)
(***************************************************************************)
C7_KeyErrorIffAbsent ==
    MapDone => (exc = "KeyError" <=> SomeRequiredAbsent(pwrstat_dict))

(***************************************************************************)
(* C7, amended.  write_influxdb fails whenever a required label is absent, *)
(* and never raises KeyError otherwise; it raises KeyError exactly when a  *)
(* required label is absent and every value label other than State that   *)
(* the loops look up before the first absent label has a first token that  *)
(* is a number.  Otherwise that value raises ValueError first.             *)
(***************************************************************************)
C7_KeyErrorIffAbsentReachedFirst ==
    MapDone =>
       /\ SomeRequiredAbsent(pwrstat_dict) => pc = "raised" /\ exc # "None"
       /\ exc = "KeyError" <=>
             /\ SomeRequiredAbsent(pwrstat_dict)
             /\ CoercibleBeforeFirstAbsent(pwrstat_dict)
       /\ exc = "ValueError" /\ SomeRequiredAbsent(pwrstat_dict) =>
             ~CoercibleBeforeFirstAbsent(pwrstat_dict)

\* a value label alone is absent and the KeyError comes from the value loop
C7_Witness ==
    /\ pc = "raised"
    /\ exc = "KeyError"
    /\ TagLabels \subseteq DOMAIN pwrstat_dict
    /\ DOMAIN json_body.tags = {SinkKey(l) : l \in TagLabels}
    /\ Load \notin DOMAIN pwrstat_dict

(***************************************************************************)
(* C10.  For every dict that holds all required labels, with a number as   *)
(* first token of every value label other than State, write_influxdb       *)
(* builds a point with exactly the four tag keys and the six field keys,   *)
(* each the label without its spaces; a tag is the first space-delimited   *)
(* token as a string, a field the number that token reads as, and State    *)
(* is 0.0 for the token Normal and 1.0 for any other.  Tag keys and field  *)
(* keys are disjoint and no other label appears.                           *)
(***************************************************************************)
C10_PointOfCompleteDict ==
    MapDone =>
       /\ ~MappingMustFail(pwrstat_dict) <=> pc = "sleep"
       /\ pc = "sleep" =>
             /\ DOMAIN json_body.tags = {SinkKey(l) : l \in TagLabels}
             /\ DOMAIN json_body.fields = {SinkKey(l) : l \in ValueLabels}
             /\ Cardinality(DOMAIN json_body.tags) = 4
             /\ Cardinality(DOMAIN json_body.fields) = 6
             /\ DOMAIN json_body.tags \cap DOMAIN json_body.fields = {}
             /\ \A l \in TagLabels :
                   LET token == json_body.tags[SinkKey(l)]
                   IN  /\ token = split(pwrstat_dict[l], " ")[1]
                       /\ \A i \in 1..Len(token) : token[i] # " "
             /\ \A l \in ValueLabels \ {State} :
                   json_body.fields[SinkKey(l)]
                      = float(split(pwrstat_dict[l], " ")[1])
             /\ json_body.fields[SinkKey(State)] =
                   IF split(pwrstat_dict[State], " ")[1] = Normal
                   THEN [m |-> 0, e |-> 0] ELSE [m |-> 1, e |-> 0]
             /\ pwrstat_dict = MapBase =>
                   /\ json_body.tags[SinkKey(Model_Name)]
                         = <<"M", "o", "d", "e", "l", "X">>
                   /\ json_body.tags[SinkKey(Rating_Power)] = <<"5", "0", "0">>
                   /\ json_body.fields[SinkKey(Load)] = [m |-> 30, e |-> 0]
                   /\ json_body.fields[SinkKey(Battery_Capacity)] = [m |-> 100, e |-> 0]
                   /\ json_body.fields[SinkKey(Remaining_Runtime)] = [m |-> 45, e |-> 0]
             /\ ~dry_run => points = <<json_body>>

\* a dict with a label outside the two lists and a State other than Normal
C10_Witness ==
    /\ pc = "sleep"
    /\ Test_Result \in DOMAIN pwrstat_dict
    /\ pwrstat_dict[State] = Txt_PowerFailure
    /\ json_body.fields[SinkKey(State)] = [m |-> 1, e |-> 0]
    /\ json_body.fields[SinkKey(Load)] = [m |-> 30, e |-> 0]

(***************************************************************************)
(* What the properties of parse_pwrstat alone speak of.                    *)
(***************************************************************************)
\* the lines of the text after the first three
BodyLines == slice_from(split(out, "\n"), 3)

HasPeriod(line) == \E i \in 1..Len(line) : line[i] = "."

\* the text of the line before its first period, trimmed
LineLabel(line) == strip(split(line, ".")[1])

\* the value the line is said to store: the second-to-last segment for the
\* label Remaining Runtime, the last segment for any other label
LineValueByLabel(line) ==
    LET segments == split(line, ".")
    IN  IF LineLabel(line) = Remaining_Runtime
        THEN strip(segments[Len(segments) - 1])
        ELSE strip(segments[Len(segments)])

\* no later line of the text overwrites the entry of line i
LastOfItsLabel(i) ==
    \A j \in (i + 1)..Len(BodyLines) :
       HasPeriod(BodyLines[j]) => LineLabel(BodyLines[j]) # LineLabel(BodyLines[i])

Parsed == pc = "write_influxdb"

AllDotted == \A i \in 1..Len(BodyLines) : HasPeriod(BodyLines[i])

BodyLabels == {LineLabel(BodyLines[i]) : i \in 1..Len(BodyLines)}

DistinctLabels ==
    \A i, j \in 1..Len(BodyLines) :
       i # j => LineLabel(BodyLines[i]) # LineLabel(BodyLines[j])

(***************************************************************************)
(* C8.  The value parse_pwrstat stores for a line is its second-to-last    *)
(* period-delimited segment, trimmed, exactly when the label of the line   *)
(* is Remaining Runtime, and its last segment, trimmed, otherwise.         *)
(***************************************************************************)
C8_SecondToLastIffLabel ==
    Parsed =>
       \A i \in 1..Len(BodyLines) :
          HasPeriod(BodyLines[i]) /\ LastOfItsLabel(i) =>
             /\ LineLabel(BodyLines[i]) \in DOMAIN pwrstat_dict
             /\ pwrstat_dict[LineLabel(BodyLines[i])] = LineValueByLabel(BodyLines[i])

(***************************************************************************)
(* C9.  As claimed: a text whose N lines after the header all hold a       *)
(* period parses to exactly N entries, keyed by the trimmed labels.        *)
(***************************************************************************)
C9_ExactlyNEntries ==
    Parsed /\ AllDotted =>
       /\ DOMAIN pwrstat_dict = BodyLabels
       /\ Cardinality(DOMAIN pwrstat_dict) = Len(BodyLines)

(***************************************************************************)
(* C9, amended.  A text whose N lines after the three discarded header     *)
(* lines all hold a period parses to a dict whose keys are exactly the     *)
(* trimmed labels of these lines: N entries when the labels are pairwise   *)
(* distinct, fewer when a label repeats (the later line overwrites).       *)
(***************************************************************************)
C9_OneEntryPerDistinctLabel ==
    Parsed /\ AllDotted =>
       /\ DOMAIN pwrstat_dict = BodyLabels
       /\ DistinctLabels => Cardinality(DOMAIN pwrstat_dict) = Len(BodyLines)
       /\ ~DistinctLabels => Cardinality(DOMAIN pwrstat_dict) < Len(BodyLines)

\* two lines with one label have left one entry
C9_Witness ==
    /\ Parsed
    /\ AllDotted
    /\ Len(BodyLines) = 2
    /\ Cardinality(DOMAIN pwrstat_dict) = 1
    /\ Load \in DOMAIN pwrstat_dict

=============================================================================
